---- MODULE Spec2Model ----
(***************************************************************************)
(* The NetVConnection I/O contract of iocore/net/I_NetVConnection.h:       *)
(* read/write VIOs, their events, do_io_shutdown / do_io_close, the active *)
(* and inactivity timeouts, and out-of-band sends.  Every I/O method of    *)
(* the class is pure virtual in the header; the behaviour modelled here is *)
(* the one the header's documentation and the specification prescribe for  *)
(* every implementation.                                                   *)
(***************************************************************************)
EXTENDS Integers, Sequences, FiniteSets

\* ---------------------------------------------------------------- bounds
MaxBytes == 2      \* largest bounded nbytes a state machine asks for
MaxChunk == 2      \* largest number of bytes the transport moves in one step
MaxDone  == 3      \* cap on ndone of an unbounded (INT_MAX) operation
MaxDur   == 2      \* largest timeout duration, in clock ticks
TickDur  == 1      \* the timeout duration used where its length does not matter

\* ------------------------------------------------------------- constants
INT_MAX == 2147483647   \* "if unknown set to INT_MAX"

Conts == {"c1", "c2"}   \* the Continuations (state machines) that are sinks
NoCont == "null"
Threads == {"t1", "t2"}   \* the event threads that run the handlers
NoThread == "none"

EVENT_DONE == "EVENT_DONE"
EVENT_CONT == "EVENT_CONT"
HandlerResults == {EVENT_DONE, EVENT_CONT}

VC_EVENT_READ_READY == "VC_EVENT_READ_READY"
VC_EVENT_READ_COMPLETE == "VC_EVENT_READ_COMPLETE"
VC_EVENT_WRITE_READY == "VC_EVENT_WRITE_READY"
VC_EVENT_WRITE_COMPLETE == "VC_EVENT_WRITE_COMPLETE"
VC_EVENT_EOS == "VC_EVENT_EOS"
VC_EVENT_ERROR == "VC_EVENT_ERROR"
VC_EVENT_ACTIVE_TIMEOUT == "VC_EVENT_ACTIVE_TIMEOUT"
VC_EVENT_INACTIVITY_TIMEOUT == "VC_EVENT_INACTIVITY_TIMEOUT"
VC_EVENT_OOB_COMPLETE == "VC_EVENT_OOB_COMPLETE"

IO_SHUTDOWN_READ == {"READ"}
IO_SHUTDOWN_WRITE == {"WRITE"}
IO_SHUTDOWN_READWRITE == {"READ", "WRITE"}
ShutdownHowTo_t == {IO_SHUTDOWN_READ, IO_SHUTDOWN_WRITE, IO_SHUTDOWN_READWRITE}

TimeoutKinds == {"ACTIVE", "INACTIVITY"}
TimeoutEvent(kind) ==
  IF kind = "ACTIVE" THEN VC_EVENT_ACTIVE_TIMEOUT ELSE VC_EVENT_INACTIVITY_TIMEOUT

TimeoutEvents == {VC_EVENT_ACTIVE_TIMEOUT, VC_EVENT_INACTIVITY_TIMEOUT}
TerminalEvents ==
  {VC_EVENT_READ_COMPLETE, VC_EVENT_WRITE_COMPLETE, VC_EVENT_EOS, VC_EVENT_ERROR}

Min(a, b) == IF a < b THEN a ELSE b

VARIABLES
  closed,       \* do_io_close has been called
  lerrno,       \* the close reason recorded by the first do_io_close
  shutdown,     \* the directions do_io_shutdown has been applied to
  read,         \* the read VIO:  [op, cont, nbytes, ndone, enabled]
  write,        \* the write VIO: [op, cont, nbytes, ndone, enabled]
  timeout,      \* per kind: [in, left, armed]
  oob,          \* the out-of-band send: [pending, cont, sent]
  delivered,    \* the handleEvent calls made by the last step, in order
  fired,        \* the timer expiry handled by the last step, if any
  hist,         \* per direction, what the current VIO's sink has seen
  thist,        \* per timeout kind, the last set/cancel call and the signals since
  result,       \* what the last call told its caller, if it was out of the ordinary
  oopen,        \* out-of-band sends accepted and neither signalled nor cancelled
  idle,         \* clock ticks since the inactivity timer was last set or reset
  mutex,        \* per continuation, the thread that holds its lock
  calls         \* per thread, the handlers it is calling: the first is running

vars == <<closed, lerrno, shutdown, read, write, timeout, oob,
          delivered, fired, hist, thist,
          result,
          oopen,
          idle,
          mutex,
          calls>>

\* ------------------------------------------------------------------ VIOs
NoVIO == [op |-> "NONE", cont |-> NoCont, nbytes |-> 0, ndone |-> 0, enabled |-> FALSE]

NewVIO(op, c, nbytes) ==
  [op |-> op, cont |-> c, nbytes |-> nbytes, ndone |-> 0, enabled |-> TRUE]

ntodo(v) == v.nbytes - v.ndone

\* SideActive that forgets the shutdown flag
M2_SideActive(sd, v, dir) == v.op = dir

\* SideActive that forgets to ask whether an operation was initiated
M5_SideActive(sd, v, dir) == dir \notin sd

\* a read (write) has been initiated and that side has not been shut down
SideActive(sd, v, dir) == v.op = dir /\ dir \notin sd

Event(c, ev, side, n) == [cont |-> c, event |-> ev, side |-> side, bytes |-> n]

NoHist == [term |-> 0, after |-> FALSE, sum |-> 0, pre |-> FALSE]

\* what the sink of one direction's VIO has seen once event e is delivered
ObserveOne(h, e) ==
  [h EXCEPT !.after = h.after \/ h.term > 0,
            !.term = IF e.event \in TerminalEvents THEN Min(h.term + 1, 2) ELSE h.term,
            !.sum = h.sum + e.bytes]

RECURSIVE Observe(_, _, _)
Observe(h, evs, side) ==
  IF evs = <<>> THEN h
  ELSE Observe(IF Head(evs).side = side THEN ObserveOne(h, Head(evs)) ELSE h,
               Tail(evs), side)

ObserveAll(hs, evs) ==
  [d \in {"READ", "WRITE"} |-> Observe(hs[d], evs, d)]

NoTimeout == [in |-> 0, left |-> 0, armed |-> FALSE]
NoOOB == [pending |-> FALSE, cont |-> NoCont, sent |-> FALSE]
NoFired == [kind |-> "NONE", ret |-> EVENT_CONT]

Init ==
  /\ closed = FALSE
  /\ lerrno = "NONE"
  /\ shutdown = {}
  /\ read = NoVIO
  /\ write = NoVIO
  /\ timeout = [k \in TimeoutKinds |-> NoTimeout]
  /\ oob = NoOOB
  /\ delivered = <<>>
  /\ fired = NoFired
  /\ hist = [d \in {"READ", "WRITE"} |-> NoHist]
  /\ thist = [k \in TimeoutKinds |-> [call |-> "none", fires |-> 0]]
  /\ result = "none"
  /\ oopen = 0
  /\ idle = 0
  /\ mutex = [c \in Conts |-> NoThread]
  /\ calls = [t \in Threads |-> <<>>]

\* a step that calls no handler
Quiet == delivered' = <<>> /\ fired' = NoFired

\* ------------------------------------------------------- I/O initiation
\* StartIO that re-uses the VIO of an operation in progress without
\* resetting its byte count
M13_StartIO(sd, v, dir, c, nbytes) ==
  IF dir \in sd THEN v
  ELSE IF v.op = dir THEN [v EXCEPT !.cont = c, !.nbytes = nbytes, !.enabled = TRUE]
  ELSE NewVIO(dir, c, nbytes)

\* the VIO after do_io_read / do_io_write: a shut-down side takes no new VIO
StartIO(sd, v, dir, c, nbytes) ==
  IF dir \in sd THEN v ELSE NewVIO(dir, c, nbytes)

\* what do_io_read / do_io_write tells its caller: I/O on a side that is
\* shut down is a caller error; a call on a side with an operation in
\* progress replaces that operation
StartResult(sd, v, dir) ==
  IF dir \in sd THEN "error" ELSE IF v.op = dir THEN "replaced" ELSE "none"

do_io_read(c, nbytes) ==
  /\ ~closed
  /\ read' = StartIO(shutdown, read, "READ", c, nbytes)
  /\ hist' = IF "READ" \in shutdown THEN hist ELSE [hist EXCEPT !["READ"] = NoHist]
  /\ Quiet
  /\ result' = StartResult(shutdown, read, "READ")
  /\ UNCHANGED <<closed, lerrno, shutdown, write, timeout, oob, thist, oopen,
               idle, mutex, calls>>

do_io_write(c, nbytes) ==
  /\ ~closed
  /\ write' = StartIO(shutdown, write, "WRITE", c, nbytes)
  /\ hist' = IF "WRITE" \in shutdown THEN hist ELSE [hist EXCEPT !["WRITE"] = NoHist]
  /\ Quiet
  /\ result' = StartResult(shutdown, write, "WRITE")
  /\ UNCHANGED <<closed, lerrno, shutdown, read, timeout, oob, thist, oopen,
               idle, mutex, calls>>

\* ------------------------------------------------------ transport events
\* the side's sink may be called back: the connection is open, the side is
\* not shut down, an operation is in progress on it and it is enabled
Deliverable(cl, sd, v, dir) == ~cl /\ dir \notin sd /\ v.op = dir /\ v.enabled

\* Retire that only disables the VIO and leaves the operation in place
M10_Retire(v) == [v EXCEPT !.enabled = FALSE]

\* a VIO that has had its terminal event is retired
Retire(v) == [v EXCEPT !.op = "NONE", !.enabled = FALSE]

\* the VIO once its sink has been called with event ev: *_COMPLETE, EOS and
\* ERROR end the operation, every other event leaves it in progress
Signalled(v, ev) == IF ev \in TerminalEvents THEN Retire(v) ELSE v

\* toread that takes everything the transport has
M9_toread(v, got) == got

\* bytes moved by one transport step: never more than the VIO still wants
toread(v, got) == Min(got, ntodo(v))

\* the VIO after got bytes arrived; full = the buffer filled up, which
\* disables the VIO until the sink calls reenable
Advance(v, got, full) ==
  [v EXCEPT !.ndone = v.ndone + toread(v, got), !.enabled = ~full]

\* progress that leaves nothing to do is the completion
ProgressKind(w, ready, complete) == IF ntodo(w) <= 0 THEN complete ELSE ready

\* net_activity that leaves the inactivity timer running
M18_net_activity(t) == t

\* read or write traffic resets a pending inactivity timer
net_activity(t) ==
  [t EXCEPT !["INACTIVITY"].left =
     IF t["INACTIVITY"].armed THEN t["INACTIVITY"].in ELSE @]

\* time since the inactivity timer last started afresh: nothing after a step
\* that moved bytes, one more tick (counted up to the duration) while armed
IdleAfter(n, evs) == IF evs # <<>> THEN 0 ELSE n
IdleTick(n, t) == IF t.armed THEN Min(n + 1, t.in) ELSE n

\* the read step itself: bytes arrive and the read VIO's sink is called
read_from_net(got, full) ==
  /\ fired' = NoFired
  /\ IF Deliverable(closed, shutdown, read, "READ")
     THEN LET w == Advance(read, got, full)
              ev == ProgressKind(w, VC_EVENT_READ_READY, VC_EVENT_READ_COMPLETE)
          IN /\ w.ndone <= MaxDone
             /\ delivered' = <<Event(w.cont, ev, "READ", w.ndone - read.ndone)>>
             /\ read' = Signalled(w, ev)
             /\ timeout' = net_activity(timeout)
     ELSE /\ delivered' = <<>>
          /\ UNCHANGED <<read, timeout>>
  /\ hist' = ObserveAll(hist, delivered')
  /\ result' = "none"
  /\ idle' = IdleAfter(idle, delivered')
  /\ UNCHANGED <<closed, lerrno, shutdown, write, oob, thist, oopen>>

\* a read step whose handler has returned when the step ends
net_read_io(got, full) ==
  /\ read_from_net(got, full)
  /\ UNCHANGED <<mutex, calls>>

\* the write step itself: bytes leave and the write VIO's sink is called
write_to_net_io(got, full) ==
  /\ fired' = NoFired
  /\ IF Deliverable(closed, shutdown, write, "WRITE")
     THEN LET w == Advance(write, got, full)
              ev == ProgressKind(w, VC_EVENT_WRITE_READY, VC_EVENT_WRITE_COMPLETE)
          IN /\ w.ndone <= MaxDone
             /\ delivered' = <<Event(w.cont, ev, "WRITE", w.ndone - write.ndone)>>
             /\ write' = Signalled(w, ev)
             /\ timeout' = net_activity(timeout)
     ELSE /\ delivered' = <<>>
          /\ UNCHANGED <<write, timeout>>
  /\ hist' = ObserveAll(hist, delivered')
  /\ result' = "none"
  /\ idle' = IdleAfter(idle, delivered')
  /\ UNCHANGED <<closed, lerrno, shutdown, read, oob, thist, oopen>>

\* a write step whose handler has returned when the step ends
write_to_net(got, full) ==
  /\ write_to_net_io(got, full)
  /\ UNCHANGED <<mutex, calls>>

\* the peer shut the stream down (VC_EVENT_EOS) or the read failed (VC_EVENT_ERROR)
read_signal_done(ev) ==
  /\ fired' = NoFired
  /\ IF Deliverable(closed, shutdown, read, "READ")
     THEN /\ read' = Signalled(read, ev)
          /\ delivered' = <<Event(read.cont, ev, "READ", 0)>>
     ELSE /\ delivered' = <<>>
          /\ UNCHANGED read
  /\ hist' = ObserveAll(hist, delivered')
  /\ result' = "none"
  /\ UNCHANGED <<closed, lerrno, shutdown, write, timeout, oob, thist, oopen,
               idle, mutex, calls>>

\* the write failed (VC_EVENT_ERROR)
write_signal_error ==
  /\ fired' = NoFired
  /\ IF Deliverable(closed, shutdown, write, "WRITE")
     THEN /\ write' = Signalled(write, VC_EVENT_ERROR)
          /\ delivered' = <<Event(write.cont, VC_EVENT_ERROR, "WRITE", 0)>>
     ELSE /\ delivered' = <<>>
          /\ UNCHANGED write
  /\ hist' = ObserveAll(hist, delivered')
  /\ result' = "none"
  /\ UNCHANGED <<closed, lerrno, shutdown, read, timeout, oob, thist, oopen,
               idle, mutex, calls>>

\* Reenabled that does not look at the shutdown flags
M14_Reenabled(sd, v, dir) ==
  IF v.op = dir THEN [v EXCEPT !.enabled = TRUE] ELSE v

\* VIO::reenable: re-arms an operation in progress on a side that is not shut down
Reenabled(sd, v, dir) ==
  IF v.op = dir /\ dir \notin sd THEN [v EXCEPT !.enabled = TRUE] ELSE v

reenable(dir) ==
  /\ ~closed
  /\ read' = IF dir = "READ" THEN Reenabled(shutdown, read, dir) ELSE read
  /\ write' = IF dir = "WRITE" THEN Reenabled(shutdown, write, dir) ELSE write
  /\ Quiet
  /\ result' = "none"
  /\ UNCHANGED <<closed, lerrno, shutdown, timeout, oob, hist, thist, oopen,
               idle, mutex, calls>>

\* --------------------------------------------------- shutdown and close
\* ShutVIO that stops both sides whichever side is shut down
M20_ShutVIO(v, dir, howto) == [v EXCEPT !.enabled = FALSE]

\* a side that is shut down stops for good: its VIO is disabled, silently
ShutVIO(v, dir, howto) ==
  IF dir \in howto THEN [v EXCEPT !.enabled = FALSE] ELSE v

ShutFlags(sd, howto) == sd \cup howto

\* the operation in progress on a side is pre-empted
Preempt(h, v, dir, stopped) ==
  IF dir \in stopped /\ v.op = dir THEN [h EXCEPT !.pre = TRUE] ELSE h

\* ShutClosed that takes a connection with both sides shut down as closed
M12_ShutClosed(cl, sd) == cl \/ sd = IO_SHUTDOWN_READWRITE

\* even if both sides are shut down the connection is not closed: the state
\* machine must still call do_io_close
ShutClosed(cl, sd) == cl

do_io_shutdown(howto) ==
  /\ ~closed
  /\ shutdown' = ShutFlags(shutdown, howto)
  /\ read' = ShutVIO(read, "READ", howto)
  /\ write' = ShutVIO(write, "WRITE", howto)
  /\ hist' = [hist EXCEPT !["READ"] = Preempt(@, read, "READ", howto),
                          !["WRITE"] = Preempt(@, write, "WRITE", howto)]
  /\ closed' = ShutClosed(closed, shutdown')
  /\ Quiet
  /\ result' = "none"
  /\ UNCHANGED <<lerrno, timeout, oob, thist, oopen, idle, mutex, calls>>

\* the closed flag after do_io_close
CloseFlag(cl) == TRUE

\* CloseReason that records the reason of every call
M11_CloseReason(cl, old, reason) == reason

\* the close reason kept: the one of the first do_io_close
CloseReason(cl, old, reason) == IF cl THEN old ELSE reason

\* a do_io_close on a closed connection is tolerated as a no-op
CloseResult(cl) == IF cl THEN "noop" ELSE "none"

\* a second do_io_close is a no-op; the first one stops both sides.  Timers
\* and an out-of-band send that are pending stay pending: their handlers
\* find the connection closed.
do_io_close(reason) ==
  /\ closed' = CloseFlag(closed)
  /\ lerrno' = CloseReason(closed, lerrno, reason)
  /\ read' = IF closed THEN read ELSE ShutVIO(read, "READ", IO_SHUTDOWN_READWRITE)
  /\ write' = IF closed THEN write ELSE ShutVIO(write, "WRITE", IO_SHUTDOWN_READWRITE)
  /\ hist' = IF closed THEN hist
             ELSE [hist EXCEPT !["READ"] = Preempt(@, read, "READ", IO_SHUTDOWN_READWRITE),
                               !["WRITE"] = Preempt(@, write, "WRITE", IO_SHUTDOWN_READWRITE)]
  /\ Quiet
  /\ result' = CloseResult(closed)
  /\ UNCHANGED <<shutdown, timeout, oob, thist, oopen, idle, mutex, calls>>

\* ------------------------------------------------------------- timeouts
\* set_*_timeout: the timer runs for timeout_in from now; a repeated call resets it
SetTimeout(t, timeout_in) == [in |-> timeout_in, left |-> timeout_in, armed |-> TRUE]

\* CancelTimeout that leaves the timer running
M6_CancelTimeout(t) == t

\* cancel_*_timeout: the timer is cleared
CancelTimeout(t) == NoTimeout

\* ClearExpired that restarts the timer, as a periodic event would
M7_ClearExpired(t) == [t EXCEPT !.left = t.in]

\* a timer that has expired is cleared before anybody is signalled
ClearExpired(t) == NoTimeout

set_timeout(kind, timeout_in) ==
  /\ ~closed
  /\ timeout' = [timeout EXCEPT ![kind] = SetTimeout(@, timeout_in)]
  /\ thist' = [thist EXCEPT ![kind] = [call |-> "set", fires |-> 0]]
  /\ Quiet
  /\ result' = "none"
  /\ idle' = IF kind = "INACTIVITY" THEN 0 ELSE idle
  /\ UNCHANGED <<closed, lerrno, shutdown, read, write, oob, hist, oopen,
               mutex, calls>>

set_active_timeout(timeout_in) == set_timeout("ACTIVE", timeout_in)

set_inactivity_timeout(timeout_in) == set_timeout("INACTIVITY", timeout_in)

cancel_timeout(kind) ==
  /\ ~closed
  /\ timeout' = [timeout EXCEPT ![kind] = CancelTimeout(@)]
  /\ thist' = [thist EXCEPT ![kind].call = "cancel"]
  /\ Quiet
  /\ result' = "none"
  /\ idle' = IF kind = "INACTIVITY" THEN 0 ELSE idle
  /\ UNCHANGED <<closed, lerrno, shutdown, read, write, oob, hist, oopen,
               mutex, calls>>

cancel_active_timeout == cancel_timeout("ACTIVE")

cancel_inactivity_timeout == cancel_timeout("INACTIVITY")

\* one tick of the clock: every running timer gets closer to its deadline
Tick ==
  /\ \E k \in TimeoutKinds : timeout[k].armed /\ timeout[k].left > 0
  /\ timeout' = [k \in TimeoutKinds |->
                   IF timeout[k].armed /\ timeout[k].left > 0
                   THEN [timeout[k] EXCEPT !.left = @ - 1] ELSE timeout[k]]
  /\ Quiet
  /\ result' = "none"
  /\ idle' = IdleTick(idle, timeout["INACTIVITY"])
  /\ UNCHANGED <<closed, lerrno, shutdown, read, write, oob, hist, thist,
               oopen, mutex, calls>>

\* TimeoutTargets that does not look at the closed flag
M1_TimeoutTargets(cl, sd, r, w, ev, ret) ==
  LET rsig == SideActive(sd, r, "READ")
      reader_cont == IF rsig THEN r.cont ELSE NoCont
      wsig == /\ ~(rsig /\ ret = EVENT_DONE)
              /\ SideActive(sd, w, "WRITE")
              /\ reader_cont # w.cont
  IN (IF rsig THEN <<Event(r.cont, ev, "READ", 0)>> ELSE <<>>)
     \o (IF wsig THEN <<Event(w.cont, ev, "WRITE", 0)>> ELSE <<>>)

\* TimeoutTargets that ignores what the read side's handler returned
M3_TimeoutTargets(cl, sd, r, w, ev, ret) ==
  LET rsig == ~cl /\ SideActive(sd, r, "READ")
      reader_cont == IF rsig THEN r.cont ELSE NoCont
      wsig == /\ ~cl
              /\ SideActive(sd, w, "WRITE")
              /\ reader_cont # w.cont
  IN (IF rsig THEN <<Event(r.cont, ev, "READ", 0)>> ELSE <<>>)
     \o (IF wsig THEN <<Event(w.cont, ev, "WRITE", 0)>> ELSE <<>>)

\* TimeoutTargets that compares the write side's continuation with the read
\* VIO's continuation even when the read side was not signalled
M4_TimeoutTargets(cl, sd, r, w, ev, ret) ==
  LET rsig == ~cl /\ SideActive(sd, r, "READ")
      wsig == /\ ~cl
              /\ ~(rsig /\ ret = EVENT_DONE)
              /\ SideActive(sd, w, "WRITE")
              /\ r.cont # w.cont
  IN (IF rsig THEN <<Event(r.cont, ev, "READ", 0)>> ELSE <<>>)
     \o (IF wsig THEN <<Event(w.cont, ev, "WRITE", 0)>> ELSE <<>>)

\* TimeoutTargets that does not compare the two continuations
M19_TimeoutTargets(cl, sd, r, w, ev, ret) ==
  LET rsig == ~cl /\ SideActive(sd, r, "READ")
      wsig == /\ ~cl
              /\ ~(rsig /\ ret = EVENT_DONE)
              /\ SideActive(sd, w, "WRITE")
  IN (IF rsig THEN <<Event(r.cont, ev, "READ", 0)>> ELSE <<>>)
     \o (IF wsig THEN <<Event(w.cont, ev, "WRITE", 0)>> ELSE <<>>)

\* Timeout semantics: who is signalled when a timer expires.  The read side
\* first, if a read has been initiated and the read side is not shut down;
\* then the write side, unless the read side's handler returned EVENT_DONE
\* or is the same continuation, if a write has been initiated and the write
\* side is not shut down.  ret is what the read side's handler returns.
TimeoutTargets(cl, sd, r, w, ev, ret) ==
  LET rsig == ~cl /\ SideActive(sd, r, "READ")
      reader_cont == IF rsig THEN r.cont ELSE NoCont
      wsig == /\ ~cl
              /\ ~(rsig /\ ret = EVENT_DONE)
              /\ SideActive(sd, w, "WRITE")
              /\ reader_cont # w.cont
  IN (IF rsig THEN <<Event(r.cont, ev, "READ", 0)>> ELSE <<>>)
     \o (IF wsig THEN <<Event(w.cont, ev, "WRITE", 0)>> ELSE <<>>)

\* Notified that ends the operation a timeout was signalled on
M8_Notified(v, evs, side) ==
  IF \E i \in 1..Len(evs) : evs[i].side = side THEN Retire(v) ELSE v

\* receiving a timeout is only a notification: the VIO of a side stays as it
\* is, whether or not the timeout was signalled on it
Notified(v, evs, side) == v

\* the handler of an expired timer
\* the expiry itself: the timer is cleared and the sinks are called
timeout_expired(kind, ret) ==
  /\ timeout[kind].armed /\ timeout[kind].left = 0
  /\ timeout' = [timeout EXCEPT ![kind] = ClearExpired(@)]
  /\ delivered' = TimeoutTargets(closed, shutdown, read, write, TimeoutEvent(kind), ret)
  /\ fired' = [kind |-> kind, ret |-> ret]
  /\ hist' = ObserveAll(hist, delivered')
  /\ thist' = [thist EXCEPT ![kind].fires =
                 IF delivered' # <<>> THEN Min(@ + 1, 2) ELSE @]
  /\ read' = Notified(read, delivered', "READ")
  /\ write' = Notified(write, delivered', "WRITE")
  /\ result' = "none"
  /\ idle' = IF kind = "INACTIVITY" THEN 0 ELSE idle
  /\ UNCHANGED <<closed, lerrno, shutdown, oob, oopen>>

\* an expiry whose handlers have returned when the step ends
mainEvent(kind, ret) ==
  /\ timeout_expired(kind, ret)
  /\ UNCHANGED <<mutex, calls>>

\* ---------------------------------------------------------- out of band
\* only one send_OOB can be in progress at any time
\* OOBAccepts that takes a send while another one is in progress
M17_OOBAccepts(o) == TRUE

\* only one send_OOB can be in progress at any time
OOBAccepts(o) == ~o.pending

OOBSend(o, c) ==
  IF OOBAccepts(o) THEN [pending |-> TRUE, cont |-> c, sent |-> FALSE] ELSE o

\* the count of sends in progress after a send_OOB call and after a send ended
OOBOpened(o, n) == IF OOBAccepts(o) THEN Min(n + 1, 2) ELSE n
OOBClosed(n) == IF n > 0 THEN n - 1 ELSE 0

send_OOB(c) ==
  /\ ~closed
  /\ oob' = OOBSend(oob, c)
  /\ Quiet
  /\ result' = "none"
  /\ oopen' = OOBOpened(oob, oopen)
  /\ UNCHANGED <<closed, lerrno, shutdown, read, write, timeout, hist, thist,
               idle, mutex, calls>>

\* what cancel_OOB found: a send of which nothing, or a part, had gone out
CancelResult(o) ==
  IF ~o.pending THEN "none"
  ELSE IF o.sent THEN "cancelled_partial" ELSE "cancelled"

\* OOBCancel that lets the send go on
M16_OOBCancel(o) == o

\* the send is dropped, whether or not a part of it has gone out
OOBCancel(o) == NoOOB

cancel_OOB ==
  /\ ~closed
  /\ oob' = OOBCancel(oob)
  /\ Quiet
  /\ result' = CancelResult(oob)
  /\ oopen' = 0
  /\ UNCHANGED <<closed, lerrno, shutdown, read, write, timeout, hist, thist,
               idle, mutex, calls>>

\* the callback of a pending out-of-band send, if any
OOBTargets(cl, o, ev) ==
  IF ~cl /\ o.pending THEN <<Event(o.cont, ev, "OOB", 0)>> ELSE <<>>

\* part of the message goes out
oob_partial ==
  /\ oob.pending /\ ~oob.sent
  /\ oob' = [oob EXCEPT !.sent = TRUE]
  /\ Quiet
  /\ result' = "none"
  /\ UNCHANGED <<closed, lerrno, shutdown, read, write, timeout, hist, thist,
               oopen, idle, mutex, calls>>

\* the send finished (VC_EVENT_OOB_COMPLETE) or the peer shut down (VC_EVENT_EOS)
oob_done(ev) ==
  /\ oob.pending
  /\ delivered' = OOBTargets(closed, oob, ev)
  /\ oob' = NoOOB
  /\ fired' = NoFired
  /\ result' = "none"
  /\ oopen' = OOBClosed(oopen)
  /\ UNCHANGED <<closed, lerrno, shutdown, read, write, timeout, hist, thist,
               idle, mutex, calls>>

\* ------------------------------------------------- handlers and locks
\* A thread that runs a step calls the handlers with the continuations' locks
\* taken, and the locks stay taken until the handlers have returned.
Sinks(evs) == [i \in 1..Len(evs) |-> evs[i].cont]

\* TryLock that never fails
M15_TryLock(m, t, cs) == TRUE

\* the lock of every continuation to be called is free, or the thread's own
TryLock(m, t, cs) == \A i \in 1..Len(cs) : m[cs[i]] \in {NoThread, t}

Lock(m, t, cs) ==
  [c \in Conts |-> IF \E i \in 1..Len(cs) : cs[i] = c THEN t ELSE m[c]]

Unlock(m, t) == [c \in Conts |-> IF m[c] = t THEN NoThread ELSE m[c]]

\* thread t starts calling the handlers of evs; without the locks the step
\* does not happen
Enter(t, evs) ==
  /\ TryLock(mutex, t, Sinks(evs))
  /\ mutex' = Lock(mutex, t, Sinks(evs))
  /\ calls' = [calls EXCEPT ![t] = Sinks(evs)]

net_read_io_locked(t, got, full) ==
  /\ calls[t] = <<>>
  /\ read_from_net(got, full)
  /\ Enter(t, delivered')

write_to_net_locked(t, got, full) ==
  /\ calls[t] = <<>>
  /\ write_to_net_io(got, full)
  /\ Enter(t, delivered')

mainEvent_locked(t, kind, ret) ==
  /\ calls[t] = <<>>
  /\ timeout_expired(kind, ret)
  /\ Enter(t, delivered')

\* the running handler returns; the thread's next handler, if any, runs, and
\* after the last one the locks are released
handler_return(t) ==
  /\ calls[t] # <<>>
  /\ calls' = [calls EXCEPT ![t] = Tail(@)]
  /\ mutex' = IF Tail(calls[t]) = <<>> THEN Unlock(mutex, t) ELSE mutex
  /\ Quiet
  /\ result' = "none"
  /\ UNCHANGED <<closed, lerrno, shutdown, read, write, timeout, oob, hist,
                 thist, oopen, idle>>

\* ------------------------------------------------------------ the system
\* Sinks are interchangeable, so the read side's sink is fixed and the write
\* side's sink is either the same continuation or a different one.
ReadConts == {"c1"}
WriteConts == {"c1", "c2"}
OOBConts == {"c2"}

ByteCounts == (1..MaxBytes) \cup {INT_MAX}

StateMachineIO(counts) ==
  \/ \E c \in ReadConts, n \in counts : do_io_read(c, n)
  \/ \E c \in WriteConts, n \in counts : do_io_write(c, n)
  \/ \E howto \in ShutdownHowTo_t : do_io_shutdown(howto)
  \/ \E reason \in {"CLOSE", "ABORT"} : do_io_close(reason)

Transport(fulls) ==
  \/ \E got \in 1..MaxChunk, full \in fulls : net_read_io(got, full)
  \/ \E got \in 1..MaxChunk, full \in fulls : write_to_net(got, full)
  \/ \E ev \in {VC_EVENT_EOS, VC_EVENT_ERROR} : read_signal_done(ev)
  \/ write_signal_error

Timers(durations) ==
  \/ \E d \in durations : set_active_timeout(d)
  \/ \E d \in durations : set_inactivity_timeout(d)
  \/ cancel_active_timeout
  \/ cancel_inactivity_timeout
  \/ Tick
  \/ \E k \in TimeoutKinds, ret \in HandlerResults : mainEvent(k, ret)

OutOfBand ==
  \/ \E c \in OOBConts : send_OOB(c)
  \/ cancel_OOB
  \/ oob_partial
  \/ \E ev \in {VC_EVENT_OOB_COMPLETE, VC_EVENT_EOS} : oob_done(ev)

\* reads, writes, timeouts and out-of-band sends together: every operation
\* bounded by MaxBytes bytes, every timeout TickDur long, and buffers that
\* never fill up (SpecIO has the full buffers and reenable)
Next ==
  \/ StateMachineIO({MaxBytes})
  \/ Transport({FALSE})
  \/ Timers({TickDur})
  \/ OutOfBand

Spec == Init /\ [][Next]_vars

\* reads and writes of every length, without timers and out-of-band sends
NextIO ==
  \/ StateMachineIO(ByteCounts)
  \/ Transport(BOOLEAN)
  \/ \E dir \in {"READ", "WRITE"} : reenable(dir)

SpecIO == Init /\ [][NextIO]_vars

\* the timeouts, over operations that never fill their buffer
NextTimer ==
  \/ StateMachineIO({MaxBytes})
  \/ Transport({FALSE})
  \/ Timers(1..MaxDur)

SpecTimer == Init /\ [][NextTimer]_vars

\* the handlers as calls that take time, run by two threads, with reenable
\* calls and new operations arriving while they run
NextLock ==
  \/ StateMachineIO({MaxBytes})
  \/ \E t \in Threads, got \in 1..MaxChunk, full \in BOOLEAN :
       net_read_io_locked(t, got, full)
  \/ \E t \in Threads, got \in 1..MaxChunk, full \in BOOLEAN :
       write_to_net_locked(t, got, full)
  \/ \E dir \in {"READ", "WRITE"} : reenable(dir)
  \/ set_active_timeout(TickDur)
  \/ set_inactivity_timeout(TickDur)
  \/ Tick
  \/ \E t \in Threads, k \in TimeoutKinds, ret \in HandlerResults :
       mainEvent_locked(t, k, ret)
  \/ \E t \in Threads : handler_return(t)

SpecLock == Init /\ [][NextLock]_vars

TypeOK ==
  /\ closed \in BOOLEAN
  /\ shutdown \subseteq {"READ", "WRITE"}
  /\ Len(delivered) <= 2

\* ------------------------------------------------------------ properties
ReadSideLive == read.op = "READ" /\ "READ" \notin shutdown
WriteSideLive == write.op = "WRITE" /\ "WRITE" \notin shutdown
TimedOut == fired.kind # "NONE"
ReadTimeoutEvent == Event(read.cont, TimeoutEvent(fired.kind), "READ", 0)
WriteTimeoutEvent == Event(write.cont, TimeoutEvent(fired.kind), "WRITE", 0)
EventsOf(evs) == {evs[i].event : i \in 1..Len(evs)}

\* C1: once do_io_close has been called no step delivers an event to any
\* sink, whatever reads, writes, timers or out-of-band sends were pending.
C1_NoEventAfterClose == closed => delivered = <<>>

\* an expired timer was handled after the close, with a read, a write and an
\* out-of-band send still pending
C1_Witness ==
  closed /\ TimedOut /\ read.op = "READ" /\ write.op = "WRITE" /\ oob.pending

\* C2: no I/O event and no timeout event is delivered for a direction that
\* do_io_shutdown has been applied to.
C2_NoEventOnShutSide ==
  \A i \in 1..Len(delivered) : delivered[i].side \notin shutdown

\* a timer expired after the read side was shut down with a partly done read
\* in flight, and the expiry was signalled, to the write side only
C2_Witness ==
  /\ ~closed /\ TimedOut /\ delivered # <<>>
  /\ "READ" \in shutdown /\ read.op = "READ" /\ read.ndone > 0

\* C3: on an expiry with both sides live and distinct sinks the read sink is
\* notified first, and the write sink is notified after it exactly when the
\* read sink's handler did not return EVENT_DONE.
C3_ReadSinkFirst ==
  (TimedOut /\ ~closed /\ ReadSideLive /\ WriteSideLive /\ read.cont # write.cont)
    => delivered = IF fired.ret = EVENT_DONE
                   THEN <<ReadTimeoutEvent>>
                   ELSE <<ReadTimeoutEvent, WriteTimeoutEvent>>

C3_Witness ==
  /\ TimedOut /\ ~closed /\ ReadSideLive /\ WriteSideLive
  /\ read.cont # write.cont /\ fired.ret = EVENT_DONE /\ Len(delivered) = 1

\* C4: on an expiry where the read side is not live (no read initiated, or
\* the read side shut down) and the write side is, the write sink is
\* signalled, also when it is the continuation last registered for reads.
C4_WriteSinkSignalled ==
  (TimedOut /\ ~closed /\ ~ReadSideLive /\ WriteSideLive)
    => delivered = <<WriteTimeoutEvent>>

\* the read side was shut down and its VIO names the write side's sink
C4_Witness ==
  /\ TimedOut /\ ~closed /\ "READ" \in shutdown /\ WriteSideLive
  /\ read.cont = write.cont /\ Len(delivered) = 1

\* C5: no timeout event is delivered while neither side has an operation in
\* progress on a side that is not shut down.
C5_NoTimeoutWhileIdle ==
  (EventsOf(delivered) \cap TimeoutEvents # {}) => (ReadSideLive \/ WriteSideLive)

\* a timer that had been set expired while the connection was open and idle
C5_Witness ==
  /\ TimedOut /\ ~closed /\ ~ReadSideLive /\ ~WriteSideLive
  /\ thist[fired.kind].call = "set" /\ delivered = <<>>

\* C6: a timeout of a kind is delivered only while the last set/cancel call
\* for that kind was the set: after cancel_*_timeout none is delivered until
\* set_*_timeout is called again.
C6_NoTimeoutAfterCancel ==
  \A k \in TimeoutKinds :
    TimeoutEvent(k) \in EventsOf(delivered) => thist[k].call = "set"

\* both timers were set with an operation in progress; the active one was
\* cancelled, the clock ran on and the other one was signalled
C6_Witness ==
  /\ thist["ACTIVE"].call = "cancel" /\ fired.kind = "INACTIVITY"
  /\ delivered # <<>> /\ ReadSideLive

\* C7: a timeout is one-shot: between two set_*_timeout calls of a kind at
\* most one expiry of that kind is signalled.
C7_OneShot == \A k \in TimeoutKinds : thist[k].fires <= 1

\* the inactivity timeout was signalled and the read went on making progress
C7_Witness ==
  /\ thist["INACTIVITY"].fires = 1 /\ ~timeout["INACTIVITY"].armed
  /\ VC_EVENT_READ_READY \in EventsOf(delivered)

\* C8: the step that delivers a timeout changes neither the closed flag nor
\* the shutdown state nor the read and write VIOs.
C8_TimeoutKeepsLifecycle ==
  [][fired'.kind # "NONE" =>
       /\ closed' = closed /\ shutdown' = shutdown
       /\ read' = read /\ write' = write]_vars

\* a timeout was signalled to both sides, which are still in progress
C8_Witness ==
  TimedOut /\ Len(delivered) = 2 /\ ~closed /\ ReadSideLive /\ WriteSideLive

\* C9: a READ_COMPLETE comes when the bytes reported by the read's events sum
\* to nbytes and ndone reads nbytes; a READ_READY leaves bytes to do; and the
\* sink of a read sees no event after its READ_COMPLETE.
C9_ReadAccounting ==
  /\ \A i \in 1..Len(delivered) :
       /\ delivered[i].event = VC_EVENT_READ_COMPLETE
            => hist["READ"].sum = read.nbytes /\ read.ndone = read.nbytes
       /\ delivered[i].event = VC_EVENT_READ_READY => read.ndone < read.nbytes
  /\ ~hist["READ"].after

\* a read completed by a transport step that had more bytes than the read
\* still wanted, after an earlier READ_READY
C9_Witness ==
  /\ VC_EVENT_READ_COMPLETE \in EventsOf(delivered)
  /\ delivered[1].bytes < read.nbytes /\ read.ndone = read.nbytes

C12_ClosedOnlyByClose ==
  [][/\ closed => closed'
     /\ (~closed /\ closed') => \E r \in {"CLOSE", "ABORT"} : do_io_close(r)]_vars

\* both sides are shut down, the read had ended with a terminal event, a
\* timer has expired, and the connection is still not closed
C12_Witness ==
  /\ ~closed /\ shutdown = IO_SHUTDOWN_READWRITE
  /\ hist["READ"].term = 1 /\ TimedOut

\* C13: each side has one VIO.  A do_io_read (do_io_write) issued while a
\* read (write) is in progress either replaces it by a fresh VIO or is
\* rejected as a caller error, and every event of a side goes to the sink of
\* that side's one current VIO.
C13_OneHandlePerSide ==
  [][/\ \A c \in Conts, n \in ByteCounts :
          (do_io_read(c, n) /\ read.op = "READ")
            => \/ read' = NewVIO("READ", c, n)
               \/ read' = read /\ result' = "error"
     /\ \A c \in Conts, n \in ByteCounts :
          (do_io_write(c, n) /\ write.op = "WRITE")
            => \/ write' = NewVIO("WRITE", c, n)
               \/ write' = write /\ result' = "error"
     /\ \A i \in 1..Len(delivered') :
          /\ delivered'[i].side = "READ" => delivered'[i].cont = read'.cont
          /\ delivered'[i].side = "WRITE" => delivered'[i].cont = write'.cont]_vars

\* a do_io_write for another sink replaced a write that was in progress
C13_Witness ==
  /\ result = "replaced" /\ read.op = "NONE"
  /\ write.op = "WRITE" /\ write.cont = "c2" /\ write.ndone = 0

\* C14: a direction that has been shut down stays shut down; a do_io_read or
\* do_io_write on it is a caller error that leaves the side's VIO as it was,
\* and no step, reenable included, changes or re-arms the VIO of that side.
C14_ShutSideStaysShut ==
  [][/\ shutdown \subseteq shutdown'
     /\ "READ" \in shutdown => read' = read /\ ~read'.enabled
     /\ "WRITE" \in shutdown => write' = write /\ ~write'.enabled
     /\ \A c \in Conts, n \in ByteCounts :
          /\ (do_io_read(c, n) /\ "READ" \in shutdown) => result' = "error"
          /\ (do_io_write(c, n) /\ "WRITE" \in shutdown) => result' = "error"]_vars

\* a do_io_read was refused on a read side that had been shut down while a
\* read was in progress
C14_Witness ==
  /\ result = "error" /\ "READ" \in shutdown /\ ~closed
  /\ read.op = "READ" /\ ~read.enabled /\ WriteSideLive

\* C19: on an expiry with both sides live and one continuation registered
\* for reads and for writes, that continuation receives the timeout event
\* exactly once, whether its handler returns EVENT_DONE or EVENT_CONT.
C19_SameSinkOnce ==
  (TimedOut /\ ~closed /\ ReadSideLive /\ WriteSideLive /\ read.cont = write.cont)
    => /\ Cardinality({i \in 1..Len(delivered) : delivered[i].cont = read.cont}) = 1
       /\ EventsOf(delivered) = {TimeoutEvent(fired.kind)}

\* the shared continuation's handler returned EVENT_CONT
C19_Witness ==
  /\ TimedOut /\ ~closed /\ ReadSideLive /\ WriteSideLive
  /\ read.cont = write.cont /\ fired.ret = EVENT_CONT /\ delivered # <<>>

\* C20: do_io_shutdown of one side leaves the other side's VIO (continuation,
\* bytes done, enabled) and shutdown flag as they were, and with one side
\* shut down the other side still gets its events: progress, errors and
\* timeouts.
C20_ShutdownLeavesOtherSide ==
  [][/\ do_io_shutdown(IO_SHUTDOWN_READ)
          => write' = write /\ ("WRITE" \in shutdown' <=> "WRITE" \in shutdown)
     /\ do_io_shutdown(IO_SHUTDOWN_WRITE)
          => read' = read /\ ("READ" \in shutdown' <=> "READ" \in shutdown)
     /\ ("READ" \in shutdown /\ ~closed /\ WriteSideLive /\ write.enabled)
          => /\ \A got \in 1..MaxChunk, full \in BOOLEAN :
                  write_to_net(got, full)
                    => EventsOf(delivered') \in
                         {{VC_EVENT_WRITE_READY}, {VC_EVENT_WRITE_COMPLETE}}
             /\ write_signal_error => EventsOf(delivered') = {VC_EVENT_ERROR}
             /\ \A k \in TimeoutKinds, ret \in HandlerResults :
                  mainEvent(k, ret)
                    => delivered' = <<Event(write.cont, TimeoutEvent(k), "WRITE", 0)>>
     /\ ("WRITE" \in shutdown /\ ~closed /\ ReadSideLive /\ read.enabled)
          => /\ \A got \in 1..MaxChunk, full \in BOOLEAN :
                  net_read_io(got, full)
                    => EventsOf(delivered') \in
                         {{VC_EVENT_READ_READY}, {VC_EVENT_READ_COMPLETE}}
             /\ \A ev \in {VC_EVENT_EOS, VC_EVENT_ERROR} :
                  read_signal_done(ev) => EventsOf(delivered') = {ev}
             /\ \A k \in TimeoutKinds, ret \in HandlerResults :
                  mainEvent(k, ret)
                    => delivered' = <<Event(read.cont, TimeoutEvent(k), "READ", 0)>>]_vars

\* the read side was shut down with a read in progress and the write went on
C20_Witness ==
  /\ shutdown = IO_SHUTDOWN_READ /\ ~closed /\ read.op = "READ"
  /\ WriteSideLive /\ write.ndone > 0
  /\ VC_EVENT_WRITE_READY \in EventsOf(delivered)

OOBEvents(evs) == {i \in 1..Len(evs) : evs[i].side = "OOB"}

\* C16: a cancel_OOB that found a send in progress, untouched or partly
\* sent, leaves no send in progress, and a step makes an out-of-band
\* callback only for a send that was accepted and not cancelled since.
C16_NoCallbackAfterCancel ==
  [][/\ result' \in {"cancelled", "cancelled_partial"}
          => ~oob'.pending /\ oopen' = 0 /\ delivered' = <<>>
     /\ OOBEvents(delivered') # {} => oopen >= 1]_vars

\* part of the message had gone out when the send was cancelled, with a read
\* and a write in progress
C16_Witness ==
  /\ result = "cancelled_partial" /\ ~oob.pending /\ ~closed
  /\ ReadSideLive /\ WriteSideLive

ProgressEvents ==
  {VC_EVENT_READ_READY, VC_EVENT_READ_COMPLETE,
   VC_EVENT_WRITE_READY, VC_EVENT_WRITE_COMPLETE}

\* C18: set_inactivity_timeout(d) starts the inactivity timer afresh with d to
\* go, and so does every step that moves read or write bytes while it is
\* pending; VC_EVENT_INACTIVITY_TIMEOUT is delivered only when the whole
\* duration has gone by since the later of the two; a step that moves bytes
\* leaves the active timer as it was.
C18_InactivityReset ==
  [][/\ \A d \in 1..MaxDur :
          set_inactivity_timeout(d)
            => timeout'["INACTIVITY"] = [in |-> d, left |-> d, armed |-> TRUE]
     /\ (EventsOf(delivered') \cap ProgressEvents # {})
          => /\ timeout'["ACTIVE"] = timeout["ACTIVE"]
             /\ timeout["INACTIVITY"].armed
                  => timeout'["INACTIVITY"].left = timeout["INACTIVITY"].in
     /\ VC_EVENT_INACTIVITY_TIMEOUT \in EventsOf(delivered')
          => /\ timeout["INACTIVITY"].armed
             /\ idle >= timeout["INACTIVITY"].in]_vars

\* bytes were read after the active timer had run out: the inactivity timer
\* has its whole duration to go again and the active timer is still expired
C18_Witness ==
  /\ VC_EVENT_READ_READY \in EventsOf(delivered)
  /\ timeout["ACTIVE"].armed /\ timeout["ACTIVE"].left = 0
  /\ timeout["INACTIVITY"].armed /\ timeout["INACTIVITY"].in = MaxDur
  /\ timeout["INACTIVITY"].left = MaxDur /\ idle = 0

Running(c) == {t \in Threads : calls[t] # <<>> /\ Head(calls[t]) = c}

====
